---- MODULE Spec2Model ----
(***************************************************************************)
(* The asynchronous message-delivery pipeline of opchat-backend:           *)
(* MessageBroker (app/core/messaging/broker.py), MessageProcessor          *)
(* (app/core/messaging/processor.py) and MessageRepo                       *)
(* (app/repositories/message_repo.py).                                     *)
(*                                                                         *)
(* The RabbitMQ server is modelled by its queues: the worker queue         *)
(* message_processor, the delay path, and the dead-letter queue            *)
(* message_processor_dlq.  The relational store is modelled by the set of  *)
(* committed rows of table message.  Every call of the storage             *)
(* collaborator and every broker publish may raise.                        *)
(***************************************************************************)
EXTENDS Integers, Sequences, FiniteSets, Bags, TLC

VARIABLES
    processed_message_ids, \* MessageBroker.processed_message_ids, per producer instance
    queue_declared,        \* queue message_processor is declared and bound
    workerQueue,           \* ready messages of queue message_processor, head first
    delayQueue,            \* messages parked in the delay path, each with its delay
    dlq,                   \* ready messages of queue message_processor_dlq, head first
    rows,                  \* committed rows of table message
    created,               \* bag of message.created events published
    pc,                    \* per worker: position inside process_message_callback
    delivery,              \* per worker: the unacked delivery it holds
    local,                 \* per worker: locals of the running callback
    accepted,              \* history: events publish_message_pending returned for
    processed,             \* history: per idempotency key, deliveries acked as processed
    apiLog,                \* history: results of direct create_message calls
    faults,                \* failures the environment may still inject
    nPublish, nCrash, nRepublish,
    now,                   \* the wall clock, in hours
    seconds,               \* the clock of the rate limiter's store, in seconds
    publishLog,            \* history: basic_publish calls and skipped calls of the producers
    queues,                \* the broker's queues: whether declared, and with which arguments
    startup,               \* per worker process: position inside the declarations of its startup
    declareLog,            \* history: the declarations the broker refused
    gatewayQueue,          \* ready messages of queue ws_gateway_consumers, head first
    consumer,              \* per gateway instance: its state and its unacked deliveries
    received,              \* history: which instance was handed which event
    cleanupLog,            \* history: the last cleanup_dlq_messages call
    inspectLog,            \* history: the last inspect_dlq_messages call
    redis,                 \* the rate limiter's counters: per key, count and expiry
    rateLog,               \* history: per key, the last check_rate_limit call
    unackedGet,            \* deliveries of basic_get the operator's channel holds unacked
    calls,                 \* history: number of calls made, per kind
    prefetched,            \* per worker: deliveries sent to it that await their callback
    republishLog           \* history: the last republish_dlq_messages call

\* The variables of the pipeline proper.
pipelineVars == << processed_message_ids, queue_declared, workerQueue, delayQueue, dlq, rows,
                   created, pc, delivery, local, accepted, processed, apiLog, faults,
                   nPublish, nCrash, nRepublish >>

\* The variables of the broker topology, the gateway consumers, the
\* dead-letter operations and the rate limiter, without the ones a pipeline
\* step writes.
opsVars == << now, seconds, queues, startup, declareLog, consumer, received, cleanupLog, inspectLog,
              redis, rateLog, unackedGet, calls >>

restVars == << opsVars, publishLog, gatewayQueue, prefetched, republishLog >>

vars == << pipelineVars, restVars >>

-----------------------------------------------------------------------------
(* Bounds of the model *)

MaxPublish == 2
MaxPublishOne == 1
MaxFaults == 1
MaxCrashes == 1
MaxRepublish == 1
MaxApiCalls == 3
ExtraAttempts == 1
MaxTime == 1
MaxStamped == 1
MaxDlqOps == 1
MaxEvents == 2
MaxCloses == 1
MaxRestarts == 1
MaxSeconds == 2
MaxChecks == 3

(* Program constants *)

DEFAULT_MAX_RETRIES == 3
PUBLISHED_MAX_RETRIES == 3
BACKOFF_BASE == 2
\* milliseconds in an hour: max_age_hours * 60 * 60 * 1000
MS_PER_HOUR == 3600000
\* get_dlq_message_details: inspect_dlq_messages(dlq_name, limit=100)
DETAILS_LIMIT == 100

Workers == {"w1", "w2"}
\* The order in which the broker offers a delivery to its idle consumers.
WorkerBefore(v, w) == v = "w1" /\ w = "w2"
Producers == {"p1", "p2"}

required_fields == {"id", "chat_id", "sender_id", "content", "idempotency_key"}

NONE == "none"

-----------------------------------------------------------------------------
(* Message bodies *)

\* A message_data dict: the set of keys present and their values.
Dict(fields, id, chat, sender, content, key) ==
    [ fields |-> fields, id |-> id, chat_id |-> chat, sender_id |-> sender,
      content |-> content, idempotency_key |-> key, retry_count |-> -1 ]

EmptyDict == Dict({}, NONE, NONE, NONE, NONE, NONE)

E1 == Dict(required_fields, "m1", "c1", "u1", "hello", "k1")
\* another event under the same idempotency key, other content and sender
E2 == Dict(required_fields, "m2", "c1", "u2", "bye", "k1")
E3 == Dict(required_fields, "m3", "c2", "u1", "hello", "k2")
\* a dict without idempotency_key
E4 == Dict(required_fields \ {"idempotency_key"}, "m4", "c1", "u1", "hello", NONE)

Keys == {"k1", "k2"}

\* json.dumps of a dict, and the bodies no json.dumps of a dict produces:
\* a JSON value that is no object, text that is no JSON, bytes that are no UTF-8.
json_dumps(d) == [ kind |-> "object", data |-> d ]
RawBodies == { [ kind |-> k, data |-> EmptyDict ] : k \in {"nonobject", "badjson", "badutf8"} }

\* json.loads: the value or the exception raised.
json_loads(body) ==
    CASE body.kind = "object"    -> [ raised |-> NONE, isdict |-> TRUE, data |-> body.data ]
      [] body.kind = "nonobject" -> [ raised |-> NONE, isdict |-> FALSE, data |-> EmptyDict ]
      [] body.kind = "badjson"   -> [ raised |-> "JSONDecodeError", isdict |-> FALSE, data |-> EmptyDict ]
      [] body.kind = "badutf8"   -> [ raised |-> "UnicodeDecodeError", isdict |-> FALSE, data |-> EmptyDict ]

validate_message_data(message_data) ==
    \A field \in required_fields : field \in message_data.fields

-----------------------------------------------------------------------------
(* Broker messages *)

\* hops, att, repeated, reason and origin are history fields: the delay hops
\* made, the failed attempts made (counted up to AttCap), whether an attempt
\* was repeated after a requeue, why the message was dead-lettered, and how it
\* entered the worker queue.
\* The properties besides message_id and the two retry headers: delivery_mode,
\* timestamp (-1: not set), the headers x-first-publish-time (-1: not set) and
\* x-idempotency-key, and the exchange and routing key of the publish.
\* dead_at is a history field: the hour the message was dead-lettered (-1: not).
Message(message_id, body, has_headers, retry_count, max_retries, origin) ==
    [ message_id |-> message_id, body |-> body, has_headers |-> has_headers,
      retry_count |-> retry_count, max_retries |-> max_retries,
      delivery_mode |-> 1, timestamp |-> -1, first_publish_time |-> -1,
      x_idempotency_key |-> NONE, exchange |-> NONE, routing_key |-> << >>,
      hops |-> 0, att |-> 0, repeated |-> FALSE, reason |-> NONE, origin |-> origin,
      dead_at |-> -1 ]

NoMessage == Message(NONE, json_dumps(EmptyDict), FALSE, 0, 0, NONE)

\* The attempt counter stops at AttCap, so that a message requeued for ever
\* keeps the state space finite.
AttCap == DEFAULT_MAX_RETRIES + 1 + ExtraAttempts
BumpAtt(n) == IF n < AttCap THEN n + 1 ELSE n

\* Topic routing: routing key conv.<chat_id>.message.pending against the
\* binding conv.*.message.pending of queue message_processor.  A message
\* published (without the mandatory flag) to an exchange no binding of which
\* matches is discarded by the broker.
pending_routing_key(chat_id) == << "conv", chat_id, "message", "pending" >>
PENDING_BINDING == << "conv", "*", "message", "pending" >>

TopicMatch(pattern, key) ==
    /\ Len(pattern) = Len(key)
    /\ \A i \in 1..Len(pattern) : pattern[i] = "*" \/ pattern[i] = key[i]

Routed(declared, q, chat_id, msg) ==
    IF declared /\ TopicMatch(PENDING_BINDING, pending_routing_key(chat_id))
    THEN Append(q, msg) ELSE q

NoRow == [ id |-> 0, chat_id |-> NONE, sender_id |-> NONE, content |-> NONE,
           idempotency_key |-> NONE ]

\* Locals of process_message_callback; pubs (created events published by this
\* callback) and existing (the row was found, not inserted) are history fields.
NoLocal == [ message |-> NoRow, pubs |-> 0, existing |-> FALSE ]

-----------------------------------------------------------------------------
(* Broker topology, gateway consumers, operations on the dead-letter queue *)

QueueNames == { "message_processor", "message_processor_dlq", "ws_gateway_consumers" }

\* The arguments of a queue_declare (-1 or NONE: argument not given).
NoArguments ==
    [ dead_letter_exchange |-> NONE, dead_letter_routing_key |-> NONE, message_ttl |-> -1,
      max_retries |-> -1, expires |-> -1, max_length |-> -1, overflow |-> NONE ]

\* setup_message_processor_queue, lines 148-158
PROCESSOR_QUEUE_ARGUMENTS ==
    [ NoArguments EXCEPT !.dead_letter_exchange = "dlx.failed.messages",
                         !.dead_letter_routing_key = "message_processor.failed",
                         !.message_ttl = 3600000, !.max_retries = 3 ]

\* setup_dlq_monitoring, lines 362-371
DLQ_MONITORING_ARGUMENTS ==
    [ NoArguments EXCEPT !.message_ttl = 86400000, !.expires = 604800000,
                         !.max_length = 10000, !.overflow = "drop-head" ]

NoQueue == [ declared |-> FALSE, arguments |-> NoArguments ]

Gateways == { "g1", "g2" }
NoConsumer == [ state |-> "stopped", unacked |-> {} ]

NoCleanup == [ done |-> FALSE, at |-> 0, max_age_hours |-> 0, fetched |-> << >>,
               removed |-> << >>, returned |-> 0 ]
NoInspect == [ n |-> 0, limit |-> 0, before |-> << >>, returned |-> << >>,
               wanted |-> NONE, details |-> << >> ]

\* limit, the two queues before the call, and the value returned.
NoRepublish == [ n |-> 0, limit |-> 0, dlq |-> << >>, workerQueue |-> << >>, returned |-> 0 ]

RateKeys == { "key1", "key2" }
\* A key redis does not hold.
NoCounter == [ count |-> 0, expires |-> -1 ]
\* window_start, in_window and expected are the reckoning of a fixed window:
\* the second its window began (-1: none yet), the calls counted in it, and
\* whether it allows the call.
NoCheck == [ done |-> FALSE, allowed |-> TRUE, failed_open |-> FALSE,
             window_start |-> -1, in_window |-> 0, expected |-> TRUE ]

NoCalls == [ stamped |-> 0, dlq_ops |-> 0, events |-> 0, closes |-> 0, checks |-> 0,
             restarts |-> 0 ]

-----------------------------------------------------------------------------
\* The storage collaborator, the created-events publish and the publish to
\* the delay path may each raise, as long as the environment has failures
\* left: faults.left of them, or any number.
FaultAllowed(f) == f.any \/ f.left > 0
AfterFault(f) == IF f.any THEN f ELSE [ f EXCEPT !.left = @ - 1 ]

InitBase ==
    /\ processed_message_ids = [ p \in Producers |-> {} ]
    /\ queue_declared = FALSE
    /\ workerQueue = << >>
    /\ delayQueue = {}
    /\ dlq = << >>
    /\ rows = {}
    /\ created = EmptyBag
    /\ pc = [ w \in Workers |-> "stopped" ]
    /\ delivery = [ w \in Workers |-> NoMessage ]
    /\ local = [ w \in Workers |-> NoLocal ]
    /\ accepted = {}
    /\ processed = [ k \in Keys |-> 0 ]
    /\ apiLog = << >>
    /\ nPublish = 0
    /\ nCrash = 0
    /\ nRepublish = 0
    /\ now = 0
    /\ seconds = 0
    /\ publishLog = [ issued |-> EmptyBag, skipped |-> 0, raised |-> {} ]
    /\ queues = [ q \in QueueNames |-> NoQueue ]
    /\ startup = [ w \in Workers |-> "new" ]
    /\ declareLog = {}
    /\ gatewayQueue = << >>
    /\ consumer = [ g \in Gateways |-> NoConsumer ]
    /\ received = {}
    /\ cleanupLog = NoCleanup
    /\ inspectLog = NoInspect
    /\ redis = [ k \in RateKeys |-> NoCounter ]
    /\ rateLog = [ k \in RateKeys |-> NoCheck ]
    /\ unackedGet = << >>
    /\ calls = NoCalls
    /\ prefetched = [ w \in Workers |-> << >> ]
    /\ republishLog = NoRepublish

Init == InitBase /\ faults = [ any |-> FALSE, left |-> MaxFaults ]
InitAnyFaults == InitBase /\ faults = [ any |-> TRUE, left |-> 0 ]

-----------------------------------------------------------------------------
(* Publisher *)

\* MessageBroker.publish_message_pending, on producer instance p.  The
\* basic_publish may raise AMQPChannelError, which leaves the instance unchanged.
\* The hours from the epoch to the start of the clock: more than any maximum
\* age a cleanup is called with.
SinceEpoch == MaxTime + 1

\* int(datetime.now().timestamp() * 1000)
now_ms == (SinceEpoch + now) * MS_PER_HOUR

\* An instance that remembers no message id.
never_published(ids, message_id) == FALSE

\* Line 185: if message_id in self.processed_message_ids
already_published(ids, message_id) == message_id \in ids

\* Headers that leave out the idempotency key.
headers_without_key(message_data, t) ==
    [ retry_count |-> 0, max_retries |-> PUBLISHED_MAX_RETRIES,
      first_publish_time |-> t, idempotency_key |-> "" ]

\* Lines 193-198: the headers of a pending event published at time t;
\* message_data.get("idempotency_key", "")
pending_headers(message_data, t) ==
    [ retry_count |-> 0, max_retries |-> PUBLISHED_MAX_RETRIES,
      first_publish_time |-> t,
      idempotency_key |-> IF "idempotency_key" \in message_data.fields
                          THEN message_data.idempotency_key ELSE "" ]

\* Lines 200-211: the message handed to basic_publish.
pending_message(chat_id, message_data, t) ==
    LET message_id == IF "id" \in message_data.fields THEN message_data.id ELSE NONE
        headers == pending_headers(message_data, t)
    IN  [ Message(message_id, json_dumps(message_data), TRUE, headers.retry_count,
                  headers.max_retries, "pending")
          EXCEPT !.delivery_mode = 2,
                 !.first_publish_time = headers.first_publish_time,
                 !.x_idempotency_key = headers.idempotency_key,
                 !.exchange = "conv.message.pending",
                 !.routing_key = pending_routing_key(chat_id) ]

\* The other outcome: the id is tracked although nothing was published.
ids_tracked_anyway(ids, message_id) == ids \cup { message_id }

\* Lines 190-231: an exception of basic_publish leaves the try block before
\* the add of line 214; the handler only logs and raises again.
ids_after_raise(ids, message_id) == ids

publish_message_pending(p, chat_id, message_data) ==
    LET message_id == IF "id" \in message_data.fields THEN message_data.id ELSE NONE
        msg == pending_message(chat_id, message_data, now_ms)
    IN  /\ nPublish' = nPublish + 1
        /\ IF already_published(processed_message_ids[p], message_id)
           THEN \* duplicate message id: skip the publish, return normally
                /\ accepted' = accepted \cup {message_data}
                /\ publishLog' = [ publishLog EXCEPT !.skipped = @ + 1 ]
                /\ UNCHANGED << processed_message_ids, workerQueue >>
           ELSE \/ /\ workerQueue' = Routed(queue_declared, workerQueue, chat_id, msg)
                   /\ processed_message_ids' =
                        [ processed_message_ids EXCEPT ![p] = @ \cup {message_id} ]
                   /\ accepted' = accepted \cup {message_data}
                   /\ publishLog' = [ publishLog EXCEPT
                                        !.issued = @ (+) SetToBag({ << p, msg, now >> }) ]
                \/ \* basic_publish raised: line 214 is not reached
                   /\ processed_message_ids' =
                        [ processed_message_ids EXCEPT
                            ![p] = ids_after_raise(@, message_id) ]
                   /\ publishLog' = [ publishLog EXCEPT
                                        !.raised = @ \cup { << p, message_id >> } ]
                   /\ UNCHANGED << workerQueue, accepted >>
        /\ UNCHANGED << delayQueue, dlq, rows, created, pc, delivery, local,
                        processed, apiLog, queue_declared, faults, nCrash, nRepublish,
                        opsVars, gatewayQueue, prefetched, republishLog >>

\* Two producer instances publishing events, two of them under one key.
RaceInputs == { << "p1", E1 >>, << "p2", E1 >>, << "p1", E2 >>, << "p1", E3 >> }
PublishPending ==
    /\ nPublish < MaxPublish
    /\ \E i \in RaceInputs : publish_message_pending(i[1], i[2].chat_id, i[2])

\* One producer instance publishing a well-formed event or one without key.
PublishOne ==
    /\ nPublish < MaxPublishOne
    /\ \E d \in {E1, E4} : publish_message_pending("p1", d.chat_id, d)

\* One producer instance publishing an event without idempotency key.
PublishInvalid ==
    /\ nPublish < MaxPublishOne
    /\ publish_message_pending("p1", E4.chat_id, E4)

\* Any other AMQP client publishing to exchange conv.message.pending: the
\* bodies json.dumps of a dict cannot produce, with or without retry headers.
NoHeaders == << FALSE, -1, -1 >>
FreshHeaders == << TRUE, 0, PUBLISHED_MAX_RETRIES >>
SpentHeaders == << TRUE, PUBLISHED_MAX_RETRIES, PUBLISHED_MAX_RETRIES >>
RawInputs == { << "nonobject", FreshHeaders >>, << "nonobject", SpentHeaders >>,
               << "badjson", NoHeaders >>, << "badjson", SpentHeaders >>,
               << "badutf8", FreshHeaders >> }

PublishRaw ==
    \E b \in RawBodies, h \in { NoHeaders, FreshHeaders, SpentHeaders } :
        /\ << b.kind, h >> \in RawInputs
        /\ nPublish < MaxPublishOne
        /\ nPublish' = nPublish + 1
        /\ workerQueue' = Routed(queue_declared, workerQueue, "c1",
                                  Message(NONE, b, h[1], h[2], h[3], "raw"))
        /\ UNCHANGED << processed_message_ids, delayQueue, dlq, rows, created, pc,
                        delivery, local, accepted, processed, apiLog, queue_declared, faults, nCrash, nRepublish, restVars >>

-----------------------------------------------------------------------------
(* Broker-side effects of the worker's acknowledgements *)

\* basic_nack(requeue=False) on queue message_processor: the queue's
\* x-dead-letter-exchange routes the message to message_processor_dlq, and the
\* broker adds its x-death header, so the headers are no longer empty.
DeadLetter(q, msg, reason) ==
    Append(q, [ msg EXCEPT !.has_headers = TRUE, !.reason = reason, !.dead_at = now ])

\* An entry that is not put back.
not_requeued(q, msg) == q

\* basic_nack(requeue=True), or the connection of the consumer closing: the
\* broker puts the unacked message back at the head of the queue.
Requeue(q, msg) == << msg >> \o q

\* A failed attempt is counted on the message.
Attempted(msg) == [ msg EXCEPT !.att = BumpAtt(@) ]
\* The message as it goes back to the queue after a failed attempt, which
\* will be repeated.
Repeated(msg) == [ msg EXCEPT !.att = BumpAtt(@), !.repeated = TRUE ]

\* The delay timer of an entry running out: redelivery to the worker queue.
DelayExpire ==
    \E e \in delayQueue :
        /\ delayQueue' = delayQueue \ {e}
        /\ workerQueue' = Append(workerQueue, e.msg)
        /\ UNCHANGED << processed_message_ids, dlq, rows, created, pc, delivery, local,
                        accepted, processed, apiLog, queue_declared, faults, nPublish, nCrash, nRepublish, restVars >>

-----------------------------------------------------------------------------
(* Worker: MessageProcessor._handle_retry *)

\* properties.headers["x-retry-count"] and .get("x-max-retries", 3), lines 58-60
header_retry_count(msg) ==
    IF msg.has_headers /\ msg.retry_count # -1 THEN msg.retry_count ELSE 0
header_max_retries(msg) ==
    IF msg.has_headers /\ msg.retry_count # -1 /\ msg.max_retries # -1
    THEN msg.max_retries ELSE DEFAULT_MAX_RETRIES

\* The budget test with the bound included.
retry_allowed_inclusive(retry_count, max_retries) == retry_count <= max_retries

\* Line 154: if retry_count < max_retries
retry_allowed(retry_count, max_retries) == retry_count < max_retries

\* Line 159: delay_seconds = 2**retry_count
RECURSIVE Pow(_, _)
Pow(b, n) == IF n = 0 THEN 1 ELSE b * Pow(b, n - 1)
\* The delay computed from the incremented count.
backoff_of_new_count(retry_count) == Pow(BACKOFF_BASE, retry_count + 1)

backoff_delay(retry_count) == Pow(BACKOFF_BASE, retry_count)

\* MessageBroker.publish_to_delay_queue(message_data, delay_seconds): the
\* event, with its updated retry_count as the retry header, parked for
\* delay_seconds and then redelivered to the worker queue.
publish_to_delay_queue(message_data, delay_seconds) ==
    [ msg |-> Message(IF "id" \in message_data.fields THEN message_data.id ELSE NONE,
                      json_dumps(message_data), TRUE, message_data.retry_count,
                      DEFAULT_MAX_RETRIES, "pending"),
      delay |-> delay_seconds ]

\* The delivery is settled (basic_ack or basic_nack) and the callback returns.
Settle(w) ==
    /\ delivery' = [ delivery EXCEPT ![w] = NoMessage ]
    /\ pc' = [ pc EXCEPT ![w] = "idle" ]
    /\ local' = [ local EXCEPT ![w] = NoLocal ]

\* An exception leaves process_message_callback: process_data_events raises,
\* start_processing re-raises and closes the connection in its finally, the
\* process ends and the broker requeues the unacked delivery.
Die(w, q, msg) ==
    /\ workerQueue' = Requeue(q, msg)
    /\ delivery' = [ delivery EXCEPT ![w] = NoMessage ]
    /\ pc' = [ pc EXCEPT ![w] = "stopped" ]
    /\ local' = [ local EXCEPT ![w] = NoLocal ]

\* A count that is carried on as it is.
same_retry_count(retry_count) == retry_count

\* Line 156: new_retry_count = retry_count + 1
new_retry_count_of(retry_count) == retry_count + 1

\* _handle_retry, lines 150-218, for the delivery msg held by worker w, up to
\* the publish to the delay path; q is the worker queue without msg.
handle_retry(w, q, msg, f) ==
    LET retry_count == header_retry_count(msg)
        max_retries == header_max_retries(msg)
        new_retry_count == new_retry_count_of(retry_count)
        delay_seconds == backoff_delay(retry_count)
        parsed == json_loads(msg.body)
    IN  IF retry_allowed(retry_count, max_retries)
        THEN IF parsed.raised = "JSONDecodeError"
             THEN \* lines 179-182: basic_nack(requeue=False)
                  /\ dlq' = DeadLetter(dlq, Attempted(msg), "parse")
                  /\ workerQueue' = q
                  /\ Settle(w)
                  /\ faults' = f
                  /\ UNCHANGED delayQueue
             ELSE IF parsed.raised # NONE \/ ~parsed.isdict
             THEN \* UnicodeDecodeError from json.loads (line 178), or TypeError
                  \* from message_data["retry_count"] = ... (line 185): not caught
                  /\ Die(w, q, Repeated(msg))
                  /\ faults' = f
                  /\ UNCHANGED << dlq, delayQueue >>
             ELSE LET message_data == [ parsed.data EXCEPT !.retry_count = new_retry_count ]
                      entry == publish_to_delay_queue(message_data, delay_seconds)
                  IN  \/ \* lines 190-193: published to the delay path
                         /\ delayQueue' = delayQueue \cup
                              { [ entry EXCEPT !.msg.hops = msg.hops + 1,
                                               !.msg.att = BumpAtt(msg.att),
                                               !.msg.repeated = msg.repeated,
                                               !.msg.origin = msg.origin ] }
                         /\ workerQueue' = q
                         /\ delivery' = [ delivery EXCEPT ![w] = msg ]
                         /\ pc' = [ pc EXCEPT ![w] = "retry_ack" ]
                         /\ local' = [ local EXCEPT ![w] = NoLocal ]
                         /\ faults' = f
                         /\ UNCHANGED dlq
                      \/ \* lines 200-203: MessageBroker() or the publish
                         \* raised: basic_nack(requeue=True)
                         /\ FaultAllowed(f)
                         /\ faults' = AfterFault(f)
                         /\ workerQueue' = Requeue(q, Repeated(msg))
                         /\ Settle(w)
                         /\ UNCHANGED << dlq, delayQueue >>
        ELSE \* lines 204-218: basic_nack(requeue=False)
             /\ dlq' = DeadLetter(dlq, Attempted(msg), "exhausted")
             /\ workerQueue' = q
             /\ Settle(w)
             /\ faults' = f
             /\ UNCHANGED delayQueue

\* Line 196: basic_ack of the original delivery, now in the delay path.
retry_ack(w) ==
    /\ pc[w] = "retry_ack"
    /\ Settle(w)
    /\ UNCHANGED << processed_message_ids, workerQueue, delayQueue, dlq, rows, created,
                    accepted, processed, apiLog, queue_declared, faults, nPublish, nCrash, nRepublish, restVars >>

-----------------------------------------------------------------------------
(* Worker: MessageProcessor.process_message_callback, one step per call out *)

\* The callback called for delivery msg, q being the worker queue without
\* msg: lines 51-81 and the except clauses 129-148: read the headers, parse,
\* validate.
callback_run(w, msg, q) ==
    /\ LET parsed == json_loads(msg.body)
       IN  IF parsed.raised = "JSONDecodeError"
           THEN \* except json.JSONDecodeError: basic_nack(requeue=False)
                /\ dlq' = DeadLetter(dlq, msg, "parse")
                /\ workerQueue' = q
                /\ UNCHANGED << delayQueue, pc, delivery, local, faults >>
           ELSE IF parsed.raised # NONE \/ ~parsed.isdict
           THEN \* UnicodeDecodeError from json.loads, or AttributeError from
                \* message_data.get: except Exception calls _handle_retry
                handle_retry(w, q, msg, faults)
           ELSE IF ~validate_message_data(parsed.data)
           THEN \* basic_nack(requeue=False)
                /\ dlq' = DeadLetter(dlq, msg, "invalid")
                /\ workerQueue' = q
                /\ UNCHANGED << delayQueue, pc, delivery, local, faults >>
           ELSE /\ workerQueue' = q
                /\ delivery' = [ delivery EXCEPT ![w] = msg ]
                /\ pc' = [ pc EXCEPT ![w] = "lookup" ]
                /\ local' = [ local EXCEPT ![w] = NoLocal ]
                /\ UNCHANGED << dlq, delayQueue, faults >>
    /\ UNCHANGED << processed_message_ids, rows, created, accepted, processed, apiLog, queue_declared,
                    nPublish, nCrash, nRepublish, opsVars, publishLog, gatewayQueue, republishLog >>

\* basic_consume with prefetch_count = 1 hands the head of the queue to a
\* consumer that holds no unacked delivery, and the callback runs: the
\* delivery and its dispatch in one step.
callback_start(w) ==
    /\ pc[w] = "idle"
    /\ \A v \in Workers : pc[v] = "idle" => ~WorkerBefore(v, w)
    /\ workerQueue # << >>
    /\ callback_run(w, Head(workerQueue), Tail(workerQueue))
    /\ UNCHANGED prefetched

\* A consumer without prefetch limit.
always_deliver(unacked) == TRUE

\* start_processing, lines 269-272: basic_qos(prefetch_count=1) before the
\* consumer is registered: the broker sends this consumer a delivery only
\* while it holds fewer than one delivery unacked.
may_deliver(unacked) == unacked < 1

\* The deliveries the broker has sent to worker w and that are neither acked
\* nor nacked: the ones that await their callback and the one being handled.
Unacked(w) ==
    Len(prefetched[w]) + IF pc[w] \in {"idle", "stopped"} THEN 0 ELSE 1

\* The broker sends the head of queue message_processor to consumer w.
basic_deliver(w) ==
    /\ pc[w] # "stopped"
    /\ workerQueue # << >>
    /\ may_deliver(Unacked(w))
    /\ prefetched' = [ prefetched EXCEPT ![w] = Append(@, Head(workerQueue)) ]
    /\ workerQueue' = Tail(workerQueue)
    /\ UNCHANGED << processed_message_ids, queue_declared, delayQueue, dlq, rows, created,
                    pc, delivery, local, accepted, processed, apiLog, faults,
                    nPublish, nCrash, nRepublish, opsVars, publishLog, gatewayQueue, republishLog >>

\* The connection of worker w, which runs no callback, calls
\* process_message_callback for the first delivery it was sent.
dispatch(w) ==
    /\ pc[w] = "idle"
    /\ prefetched[w] # << >>
    /\ callback_run(w, Head(prefetched[w]), workerQueue)
    /\ prefetched' = [ prefetched EXCEPT ![w] = Tail(@) ]

-----------------------------------------------------------------------------
(* Storage collaborator: MessageRepo over table message *)

\* A lookup that finds no row.
query_finds_nothing(rs, key) == {}

\* A column without unique constraint.
no_unique_constraint(rs, key) == FALSE

\* session.query(Message).filter(Message.idempotency_key == key): the rows a
\* .first() may return.
query_by_idempotency_key(rs, key) == { r \in rs : r.idempotency_key = key }

\* The unique constraint of column message.idempotency_key, checked at flush.
UniqueViolation(rs, key) == \E r \in rs : r.idempotency_key = key

\* Message(chat_id=..., sender_id=..., content=..., idempotency_key=...) with the
\* id column's default uuid4: an id no row has.
NewMessage(rs, chat_id, sender_id, content, key) ==
    [ id |-> Cardinality(rs) + 1, chat_id |-> chat_id, sender_id |-> sender_id,
      content |-> content, idempotency_key |-> key ]

\* A payload that leaves out the content of the row.
event_without_content(message) ==
    [ id |-> ToString(message.id), chat_id |-> message.chat_id,
      sender_id |-> message.sender_id, content |-> NONE ]

\* The payload _publish_created_message and _publish_existing_message build:
\* "id": str(message.id), and the chat, sender and content of the row.
created_event(message) ==
    [ id |-> ToString(message.id), chat_id |-> message.chat_id, sender_id |-> message.sender_id,
      content |-> message.content ]

\* The callback goes on to its next call out.
Goto(w, label) ==
    /\ pc' = [ pc EXCEPT ![w] = label ]
    /\ UNCHANGED << workerQueue, delayQueue, dlq, delivery, faults >>

\* Lines 83-92: message_repo.get_by_idempotency_key in its own transaction.
callback_lookup(w) ==
    /\ pc[w] = "lookup"
    /\ LET key == json_loads(delivery[w].body).data.idempotency_key
       IN  \/ /\ query_by_idempotency_key(rows, key) = {}
              /\ Goto(w, "create")
              /\ UNCHANGED local
           \/ \E existing_message \in query_by_idempotency_key(rows, key) :
                /\ Goto(w, "publish")
                /\ local' = [ local EXCEPT ![w].message = existing_message,
                                           ![w].existing = TRUE ]
           \/ \* the storage call raised: except Exception calls _handle_retry
              /\ FaultAllowed(faults)
              /\ handle_retry(w, workerQueue, delivery[w], AfterFault(faults))
    /\ UNCHANGED << processed_message_ids, rows, created, accepted, processed, apiLog, queue_declared,
                    nPublish, nCrash, nRepublish, restVars >>

\* Lines 94-107 with _create_message_implementation lines 32-42: the
\* idempotency check at the start of create_message's transaction.
callback_create(w) ==
    /\ pc[w] = "create"
    /\ LET key == json_loads(delivery[w].body).data.idempotency_key
       IN  \/ /\ query_by_idempotency_key(rows, key) = {}
              /\ Goto(w, "insert")
              /\ UNCHANGED local
           \/ \E existing \in query_by_idempotency_key(rows, key) :
                /\ Goto(w, "publish")
                /\ local' = [ local EXCEPT ![w].message = existing,
                                           ![w].existing = TRUE ]
           \/ \* create_message raised: _create_message returns None
              /\ FaultAllowed(faults)
              /\ handle_retry(w, workerQueue, delivery[w], AfterFault(faults))
    /\ UNCHANGED << processed_message_ids, rows, created, accepted, processed, apiLog, queue_declared,
                    nPublish, nCrash, nRepublish, restVars >>

\* _create_message_implementation lines 44-57 and the commit of
\* _execute_with_session: the insert, which the unique constraint may refuse.
callback_insert(w) ==
    /\ pc[w] = "insert"
    /\ LET message_data == json_loads(delivery[w].body).data
           message == NewMessage(rows, message_data.chat_id, message_data.sender_id,
                                 message_data.content, message_data.idempotency_key)
       IN  \/ /\ ~UniqueViolation(rows, message_data.idempotency_key)
              /\ rows' = rows \cup {message}
              /\ Goto(w, "publish")
              /\ local' = [ local EXCEPT ![w].message = message ]
           \/ \* IntegrityError: rollback, _create_message returns None
              /\ UniqueViolation(rows, message_data.idempotency_key)
              /\ handle_retry(w, workerQueue, delivery[w], faults)
              /\ UNCHANGED rows
           \/ \* the storage is unavailable: rollback, _create_message returns None
              /\ FaultAllowed(faults)
              /\ handle_retry(w, workerQueue, delivery[w], AfterFault(faults))
              /\ UNCHANGED rows
    /\ UNCHANGED << processed_message_ids, created, accepted, processed, apiLog, queue_declared,
                    nPublish, nCrash, nRepublish, restVars >>

\* Routing keys and bindings of the exchanges conv.message.created and
\* presence.updated (setup_consumer_queue, lines 114-125).
created_routing_key(chat_id) == << "conv", chat_id, "message", "created" >>
CREATED_BINDING == << "conv", "*", "message", "created" >>
presence_routing_key(user_id) == << "presence", user_id >>
PRESENCE_BINDING == << "presence", "*" >>

\* MessageBroker.publish_message_created(chat_id, message_data), lines 233-249:
\* the queue ws_gateway_consumers q after the publish; n numbers the publish.
publish_message_created(q, chat_id, message_data, n) ==
    IF queues["ws_gateway_consumers"].declared
       /\ TopicMatch(CREATED_BINDING, created_routing_key(chat_id))
    THEN Append(q, [ kind |-> "created", about |-> chat_id, id |-> message_data.id,
                     status |-> NONE, n |-> n ])
    ELSE q

\* MessageBroker.publish_presence_updated(user_id, presence_data), lines 268-281
publish_presence_updated(q, user_id, presence_data, n) ==
    IF queues["ws_gateway_consumers"].declared
       /\ TopicMatch(PRESENCE_BINDING, presence_routing_key(user_id))
    THEN Append(q, [ kind |-> "presence", about |-> user_id, id |-> NONE,
                     status |-> presence_data.status, n |-> n ])
    ELSE q

\* The callback going on to the ack without publishing.
ack_without_publish(w) ==
    /\ pc[w] = "publish"
    /\ pc' = [ pc EXCEPT ![w] = "ack" ]
    /\ UNCHANGED << processed_message_ids, queue_declared, workerQueue, delayQueue, dlq,
                    rows, created, delivery, local, accepted, processed, apiLog, faults,
                    nPublish, nCrash, nRepublish, restVars >>

\* Lines 109-110 and 89-90: publish_message_created of the row, which may
\* raise AMQPChannelError.
callback_publish(w) ==
    /\ pc[w] = "publish"
    /\ \/ /\ created' = created (+) SetToBag({created_event(local[w].message)})
          /\ gatewayQueue' = publish_message_created(gatewayQueue, local[w].message.chat_id,
                                                      created_event(local[w].message), 0)
          /\ Goto(w, "ack")
          /\ local' = [ local EXCEPT ![w].pubs = @ + 1 ]
       \/ /\ FaultAllowed(faults)
          /\ handle_retry(w, workerQueue, delivery[w], AfterFault(faults))
          /\ UNCHANGED << created, gatewayQueue >>
    /\ UNCHANGED << processed_message_ids, rows, accepted, processed, apiLog, queue_declared,
                    nPublish, nCrash, nRepublish, opsVars, publishLog, prefetched, republishLog >>

\* Lines 112-113 and 91: basic_ack of a processed delivery.
callback_ack(w) ==
    /\ pc[w] = "ack"
    /\ LET key == json_loads(delivery[w].body).data.idempotency_key
       IN  processed' = [ processed EXCEPT ![key] = @ + 1 ]
    /\ Settle(w)
    /\ UNCHANGED << processed_message_ids, workerQueue, delayQueue, dlq, rows, created,
                    accepted, apiLog, queue_declared, faults, nPublish, nCrash, nRepublish, restVars >>

\* The worker process is killed or loses its connection while it holds an
\* unacked delivery: the broker requeues it.
Crash(w) ==
    /\ pc[w] \notin {"idle", "stopped"}
    /\ nCrash < MaxCrashes
    /\ nCrash' = nCrash + 1
    /\ Die(w, workerQueue, IF pc[w] = "retry_ack"
                           THEN Repeated(delivery[w]) ELSE delivery[w])
    /\ UNCHANGED << processed_message_ids, queue_declared, delayQueue, dlq, rows, created,
                    accepted, processed, apiLog, faults, nPublish, nRepublish, restVars >>

\* MessageProcessor.start_processing, lines 261-280, in a worker process that
\* is not running and whose declarations the broker accepts: the durable
\* queue is declared and bound, basic_qos(prefetch_count=1), start_consuming.
\* The declarations one by one, and what the broker answers to each, are
\* setup_message_processor_queue and setup_dlq_monitoring below.
start_processing(w) ==
    /\ pc[w] = "stopped"
    /\ pc' = [ pc EXCEPT ![w] = "idle" ]
    /\ queue_declared' = TRUE
    /\ UNCHANGED << processed_message_ids, workerQueue, delayQueue, dlq, rows, created,
                    delivery, local, accepted, processed, apiLog, faults,
                    nPublish, nCrash, nRepublish, restVars >>

\* MessageBroker.process_messages, lines 341-346, returning: the call
\* connection.process_data_events(time_limit=0) comes back once the events at
\* hand are handled, and start_processing closes the connection in its
\* finally (lines 288-289).  No callback is running then.
process_messages_return(w) ==
    /\ pc[w] = "idle"
    /\ pc' = [ pc EXCEPT ![w] = "stopped" ]
    /\ UNCHANGED << processed_message_ids, queue_declared, workerQueue, delayQueue, dlq,
                    rows, created, delivery, local, accepted, processed, apiLog, faults,
                    nPublish, nCrash, nRepublish, restVars >>

\* SIGINT while start_processing runs: Python raises KeyboardInterrupt in the
\* main thread wherever it is, inside process_message_callback too, whose
\* except clauses catch Exception only.  process_messages (lines 347-350)
\* catches it and calls stop_consuming, start_processing closes the
\* connection in its finally (lines 288-289), and the broker requeues the
\* delivery the worker held unacked.  The signals are counted with the
\* crashes: both end the worker process from outside.
KeyboardInterrupt(w) ==
    /\ pc[w] # "stopped"
    /\ nCrash < MaxCrashes
    /\ nCrash' = nCrash + 1
    /\ IF pc[w] = "idle"
       THEN /\ pc' = [ pc EXCEPT ![w] = "stopped" ]
            /\ UNCHANGED << workerQueue, delivery, local >>
       ELSE Die(w, workerQueue, IF pc[w] = "retry_ack"
                                THEN Repeated(delivery[w]) ELSE delivery[w])
    /\ UNCHANGED << processed_message_ids, queue_declared, delayQueue, dlq, rows, created,
                    accepted, processed, apiLog, faults, nPublish, nRepublish, restVars >>

-----------------------------------------------------------------------------
(* Dead-letter manager *)

\* The entry republished with the headers it carries.
keep_retry_count(msg) == msg

\* Lines 439-441: if properties.headers: properties.headers["x-retry-count"] = 0
reset_retry_count(msg) ==
    IF msg.has_headers THEN [ msg EXCEPT !.retry_count = 0 ] ELSE msg

\* The republished message starts a new history.
Republished(msg) ==
    [ msg EXCEPT !.hops = 0, !.att = 0, !.repeated = FALSE, !.reason = NONE,
                 !.origin = "republish" ]

\* MessageBroker.republish_dlq_messages(limit): basic_get, reset, basic_publish
\* to queue message_processor through the default exchange, basic_ack, until
\* limit entries are moved or the dead-letter queue is empty.
\* A loop that goes on until the dead-letter queue is empty.
republish_all(limit, depth) == depth

\* Lines 424-437: while messages_republished < limit, and break when
\* basic_get returns no message: the number of entries moved.
messages_republished(limit, depth) == IF limit < depth THEN limit ELSE depth

republish_dlq_messages(limit) ==
    LET n == messages_republished(limit, Len(dlq))
        moved == [ i \in 1..n |-> Republished(reset_retry_count(dlq[i])) ]
    IN  /\ nRepublish < MaxRepublish
        /\ nRepublish' = nRepublish + 1
        /\ workerQueue' = workerQueue \o moved
        /\ dlq' = SubSeq(dlq, n + 1, Len(dlq))
        /\ republishLog' = [ n |-> republishLog.n + 1, limit |-> limit, dlq |-> dlq,
                             workerQueue |-> workerQueue, returned |-> n ]
        /\ UNCHANGED << processed_message_ids, delayQueue, rows, created, pc, delivery,
                        local, accepted, processed, apiLog, queue_declared, faults, nPublish, nCrash,
                        opsVars, publishLog, gatewayQueue, prefetched >>

RepublishDlq == \E limit \in 1..2 : republish_dlq_messages(limit)

\* Any other AMQP client publishing to exchange conv.message.pending a body
\* the worker dead-letters, with the timestamp property set to its clock in
\* milliseconds.
StampedInputs == { << "badjson", NoHeaders >>, << "badutf8", SpentHeaders >> }

PublishStamped ==
    \E b \in RawBodies, h \in { NoHeaders, SpentHeaders } :
        /\ << b.kind, h >> \in StampedInputs
        /\ calls.stamped < MaxStamped
        /\ calls' = [ calls EXCEPT !.stamped = @ + 1 ]
        /\ workerQueue' = Routed(queue_declared, workerQueue, "c1",
                                  [ Message(NONE, b, h[1], h[2], h[3], "raw")
                                    EXCEPT !.timestamp = now_ms ])
        /\ UNCHANGED << processed_message_ids, queue_declared, delayQueue, dlq, rows, created,
                        pc, delivery, local, accepted, processed, apiLog, faults,
                        nPublish, nCrash, nRepublish >>
        /\ UNCHANGED << now, seconds, queues, startup, declareLog, consumer, received,
                        cleanupLog, inspectLog, redis, rateLog, unackedGet, publishLog,
                        gatewayQueue, prefetched, republishLog >>

\* An hour passes.  Queue message_processor is declared with x-message-ttl of
\* one hour and a dead-letter exchange: messages at its head that have waited
\* that long are dead-lettered by the broker.
Tick ==
    /\ now < MaxTime
    /\ now' = now + 1
    /\ \E n \in 0..Len(workerQueue) :
         /\ workerQueue' = SubSeq(workerQueue, n + 1, Len(workerQueue))
         /\ dlq' = dlq \o [ i \in 1..n |->
                              [ workerQueue[i] EXCEPT !.has_headers = TRUE,
                                                      !.reason = "expired",
                                                      !.dead_at = now + 1 ] ]
    /\ UNCHANGED << processed_message_ids, queue_declared, delayQueue, rows, created,
                    pc, delivery, local, accepted, processed, apiLog, faults,
                    nPublish, nCrash, nRepublish >>
    /\ UNCHANGED << seconds, queues, startup, declareLog, consumer, received, cleanupLog,
                    inspectLog, redis, rateLog, unackedGet, calls, publishLog, gatewayQueue, prefetched, republishLog >>

\* The variables an operation on the dead-letter queue leaves alone.
dlqOpFrame == << processed_message_ids, queue_declared, workerQueue, delayQueue, rows, created,
                 pc, delivery, local, accepted, processed, apiLog, faults,
                 nPublish, nCrash, nRepublish,
                 now, seconds, queues, startup, declareLog, consumer, received, redis,
                 rateLog, publishLog, gatewayQueue, prefetched, republishLog >>

\* Line 560: message_time = properties.timestamp or 0
message_time(msg) == IF msg.timestamp = -1 THEN 0 ELSE msg.timestamp

\* Line 562: if current_time - message_time > max_age_ms
is_old(current_time, msg_time, max_age_ms) == current_time - msg_time > max_age_ms

\* The loop of cleanup_dlq_messages, lines 551-575, over the ready entries q:
\* basic_get; an old entry is acked and counted, the first entry that is not
\* old is put back by basic_nack(requeue=True) and ends the loop, as does
\* the empty queue.
RECURSIVE cleanup_scan(_, _, _)
cleanup_scan(q, current_time, max_age_ms) ==
    IF q = << >>
    THEN [ queue |-> q, fetched |-> << >>, removed |-> << >> ]
    ELSE LET msg == Head(q)
         IN  IF is_old(current_time, message_time(msg), max_age_ms)
             THEN LET r == cleanup_scan(Tail(q), current_time, max_age_ms)
                  IN  [ queue |-> r.queue, fetched |-> << msg >> \o r.fetched,
                        removed |-> << msg >> \o r.removed ]
             ELSE [ queue |-> Requeue(Tail(q), msg), fetched |-> << msg >>,
                    removed |-> << >> ]

\* MessageBroker.cleanup_dlq_messages(dlq_name, max_age_hours), lines 540-588;
\* cleanupLog records the call, the entries fetched and removed and the count
\* returned.
cleanup_dlq_messages(max_age_hours) ==
    LET max_age_ms == max_age_hours * MS_PER_HOUR
        current_time == now_ms
        r == cleanup_scan(dlq, current_time, max_age_ms)
        call == [ done |-> TRUE, at |-> now, max_age_hours |-> max_age_hours,
                  fetched |-> << >>, removed |-> << >>, returned |-> 0 ]
    IN  /\ calls.dlq_ops < MaxDlqOps
        /\ calls' = [ calls EXCEPT !.dlq_ops = @ + 1 ]
        /\ \/ /\ dlq' = r.queue
              /\ cleanupLog' = [ call EXCEPT !.fetched = r.fetched, !.removed = r.removed,
                                             !.returned = Len(r.removed) ]
           \/ \* the first basic_get raised AMQPChannelError: return 0
              /\ UNCHANGED dlq
              /\ cleanupLog' = call
        /\ UNCHANGED << dlqOpFrame, inspectLog, unackedGet >>

CleanupDlq == \E max_age_hours \in {0, 1} : cleanup_dlq_messages(max_age_hours)

\* Lines 490-504: the message_info appended for a fetched entry; a body that
\* is no JSON is reported raw.
message_info(msg) ==
    [ message_id |-> msg.message_id, timestamp |-> msg.timestamp,
      retry_count |-> IF msg.has_headers THEN msg.retry_count ELSE -1,
      raw |-> json_loads(msg.body).raised # NONE, data |-> msg.body.data,
      entry |-> msg ]

\* One iteration of the loop of inspect_dlq_messages, lines 477-513, over the
\* ready entries q: basic_get, json.loads, append, basic_nack(requeue=True).
\* json.loads of bytes that are no UTF-8 raises UnicodeDecodeError, which no
\* except clause of the method catches: the call raises and the entry stays
\* unacked on the channel.  stop: the loop has ended (no message, or raised).
inspect_round(q) ==
    IF q = << >>
    THEN [ queue |-> q, messages |-> << >>, raised |-> FALSE, unacked |-> << >>,
           stop |-> TRUE ]
    ELSE LET msg == Head(q)
         IN  IF json_loads(msg.body).raised = "UnicodeDecodeError"
             THEN [ queue |-> Tail(q), messages |-> << >>, raised |-> TRUE,
                    unacked |-> << msg >>, stop |-> TRUE ]
             ELSE [ queue |-> Requeue(Tail(q), msg), messages |-> << message_info(msg) >>,
                    raised |-> FALSE, unacked |-> << >>, stop |-> FALSE ]

\* The loop for _ in range(n), lines 477-513: n iterations one after the
\* other, computed as the first n \div 2 followed by the rest.
RECURSIVE inspect_scan(_, _)
inspect_scan(q, n) ==
    IF n = 0
    THEN [ queue |-> q, messages |-> << >>, raised |-> FALSE, unacked |-> << >>,
           stop |-> TRUE ]
    ELSE IF n = 1
    THEN inspect_round(q)
    ELSE LET a == inspect_scan(q, n \div 2)
         IN  IF a.stop
             THEN a
             ELSE LET b == inspect_scan(a.queue, n - (n \div 2))
                  IN  [ queue |-> b.queue,
                        messages |-> IF b.raised THEN << >> ELSE a.messages \o b.messages,
                        raised |-> b.raised, unacked |-> b.unacked, stop |-> b.stop ]

\* MessageBroker.inspect_dlq_messages(dlq_name, limit), lines 467-519;
\* inspectLog records the call, the ready and unacked entries before it and
\* the list returned.
inspect_dlq_messages(limit) ==
    LET r == inspect_scan(dlq, limit)
        call == [ n |-> inspectLog.n + 1, limit |-> limit, before |-> unackedGet \o dlq,
                  returned |-> << >>, wanted |-> NONE, details |-> << >> ]
    IN  /\ calls.dlq_ops < MaxDlqOps
        /\ calls' = [ calls EXCEPT !.dlq_ops = @ + 1 ]
        /\ \/ /\ dlq' = r.queue
              /\ unackedGet' = unackedGet \o r.unacked
              /\ inspectLog' = [ call EXCEPT !.returned = r.messages ]
           \/ \* the first basic_get raised AMQPChannelError: return []
              /\ UNCHANGED << dlq, unackedGet >>
              /\ inspectLog' = call
        /\ UNCHANGED << dlqOpFrame, cleanupLog >>

InspectDlq == \E limit \in 1..2 : inspect_dlq_messages(limit)

\* Lines 529-531: the first of the messages returned by the inspection whose
\* message_id is the one looked for, as a list of one; no such message: none.
first_match(messages, message_id) ==
    LET at == { i \in 1..Len(messages) : messages[i].message_id = message_id }
    IN  IF at = {} THEN << >>
        ELSE << messages[CHOOSE i \in at : \A j \in at : i <= j] >>

\* MessageBroker.get_dlq_message_details(dlq_name, message_id), lines 521-538:
\* inspect_dlq_messages(limit=100) and the search of its result; an exception
\* of the inspection is caught at line 536 and None is returned.  inspectLog
\* records the inspection, the identifier looked for and the entry returned.
get_dlq_message_details(message_id) ==
    LET r == inspect_scan(dlq, DETAILS_LIMIT)
    IN  /\ calls.dlq_ops < MaxDlqOps
        /\ calls' = [ calls EXCEPT !.dlq_ops = @ + 1 ]
        /\ dlq' = r.queue
        /\ unackedGet' = unackedGet \o r.unacked
        /\ inspectLog' = [ n |-> inspectLog.n + 1, limit |-> DETAILS_LIMIT,
                           before |-> unackedGet \o dlq, returned |-> r.messages,
                           wanted |-> message_id,
                           details |-> first_match(r.messages, message_id) ]
        /\ UNCHANGED << dlqOpFrame, cleanupLog >>

GetDlqMessageDetails == \E message_id \in { "m4", "m1" } : get_dlq_message_details(message_id)

\* MessageBroker.close, on the operator's instance: the broker puts the
\* deliveries its channel held unacked back at the head of the queue.
OperatorClose ==
    /\ unackedGet # << >>
    /\ dlq' = unackedGet \o dlq
    /\ unackedGet' = << >>
    /\ UNCHANGED << dlqOpFrame, cleanupLog, inspectLog, calls >>

-----------------------------------------------------------------------------
(* Declarations of the queues *)

\* queue.declare on the broker: a queue that does not exist is created with
\* the arguments given; a queue that exists is left as it is, and a
\* declaration whose arguments differ from the ones it was created with is
\* refused (PRECONDITION_FAILED, the channel is closed).
queue_declare(qs, name, arguments) ==
    IF ~qs[name].declared
    THEN [ queues |-> [ qs EXCEPT ![name] = [ declared |-> TRUE, arguments |-> arguments ] ],
           ok |-> TRUE ]
    ELSE [ queues |-> qs, ok |-> qs[name].arguments = arguments ]

\* The variables a declaration leaves alone.
topologyFrame == << processed_message_ids, workerQueue, delayQueue, dlq, rows, created,
                    pc, delivery, local, accepted, processed, apiLog, faults,
                    nPublish, nCrash, nRepublish,
                    now, seconds, received, cleanupLog, inspectLog, redis, rateLog,
                    unackedGet, publishLog, gatewayQueue, prefetched, republishLog >>

\* MessageBroker.setup_message_processor_queue, lines 135-177, called at
\* processor.py:265 by a worker process starting up: the dead-letter queue
\* is declared durable without arguments, then queue message_processor with
\* its dead-letter arguments.
setup_message_processor_queue(w) ==
    LET dl == queue_declare(queues, "message_processor_dlq", NoArguments)
        main == queue_declare(dl.queues, "message_processor", PROCESSOR_QUEUE_ARGUMENTS)
    IN  /\ startup[w] = "new"
        /\ IF ~dl.ok
           THEN /\ startup' = [ startup EXCEPT ![w] = "failed" ]
                /\ declareLog' = declareLog \cup
                     { [ by |-> w, queue |-> "message_processor_dlq", line |-> 143 ] }
                /\ UNCHANGED << queues, queue_declared >>
           ELSE IF ~main.ok
           THEN /\ startup' = [ startup EXCEPT ![w] = "failed" ]
                /\ declareLog' = declareLog \cup
                     { [ by |-> w, queue |-> "message_processor", line |-> 148 ] }
                /\ queues' = dl.queues
                /\ UNCHANGED queue_declared
           ELSE /\ startup' = [ startup EXCEPT ![w] = "queue_ready" ]
                /\ queues' = main.queues
                /\ queue_declared' = TRUE
                /\ UNCHANGED declareLog
        /\ UNCHANGED << topologyFrame, consumer, calls >>

\* MessageBroker.setup_dlq_monitoring, lines 355-396, called at
\* processor.py:268 next: the dead-letter queue is declared with a ttl, an
\* expiry, a maximum length and drop-head overflow.  A refused declaration
\* raises AMQPChannelError, which start_processing re-raises.
setup_dlq_monitoring(w) ==
    LET dl == queue_declare(queues, "message_processor_dlq", DLQ_MONITORING_ARGUMENTS)
    IN  /\ startup[w] = "queue_ready"
        /\ queues' = dl.queues
        /\ IF dl.ok
           THEN /\ startup' = [ startup EXCEPT ![w] = "monitored" ]
                /\ UNCHANGED declareLog
           ELSE /\ startup' = [ startup EXCEPT ![w] = "failed" ]
                /\ declareLog' = declareLog \cup
                     { [ by |-> w, queue |-> "message_processor_dlq", line |-> 362 ] }
        /\ UNCHANGED << topologyFrame, queue_declared, consumer, calls >>

\* The worker process is started again after its startup failed.
Restart(w) ==
    /\ startup[w] = "failed"
    /\ calls.restarts < MaxRestarts
    /\ calls' = [ calls EXCEPT !.restarts = @ + 1 ]
    /\ startup' = [ startup EXCEPT ![w] = "new" ]
    /\ UNCHANGED << topologyFrame, queues, queue_declared, declareLog, consumer >>

-----------------------------------------------------------------------------
(* Gateway instances consuming the shared queue ws_gateway_consumers *)

\* MessageBroker.setup_consumer_queue, lines 103-133: the queue is declared
\* durable without arguments and bound to the two exchanges.
setup_consumer_queue(g) ==
    LET r == queue_declare(queues, "ws_gateway_consumers", NoArguments)
    IN  /\ consumer[g].state = "stopped"
        /\ queues' = r.queues
        /\ IF r.ok
           THEN /\ consumer' = [ consumer EXCEPT ![g].state = "declared" ]
                /\ UNCHANGED declareLog
           ELSE /\ declareLog' = declareLog \cup
                     { [ by |-> g, queue |-> "ws_gateway_consumers", line |-> 112 ] }
                /\ UNCHANGED consumer
        /\ UNCHANGED << topologyFrame, queue_declared, startup, calls >>

\* MessageBroker.start_consuming, lines 304-325: basic_consume with
\* auto_ack=False and no prefetch limit.
start_consuming(g) ==
    /\ consumer[g].state = "declared"
    /\ consumer' = [ consumer EXCEPT ![g].state = "consuming" ]
    /\ UNCHANGED << topologyFrame, queues, queue_declared, startup, declareLog, calls >>

\* The variables a step of the gateway leaves alone.
gatewayFrame == << pipelineVars, now, seconds, queues, startup, declareLog, cleanupLog, inspectLog,
                   redis, rateLog, unackedGet, publishLog, prefetched, republishLog >>

\* A producer of created or presence events.
PublishEvent ==
    /\ calls.events < MaxEvents
    /\ calls' = [ calls EXCEPT !.events = @ + 1 ]
    /\ \/ \E chat_id \in { "c1", "c2" } :
            gatewayQueue' = publish_message_created(gatewayQueue, chat_id,
                                [ id |-> "1", chat_id |-> chat_id ], calls.events + 1)
       \/ gatewayQueue' = publish_presence_updated(gatewayQueue, "u1", [ status |-> "online" ],
                                                    calls.events + 1)
    /\ UNCHANGED << gatewayFrame, consumer, received >>

\* The broker hands the head of the queue to one of the consuming instances,
\* which holds it unacked.
Deliver(g) ==
    /\ consumer[g].state = "consuming"
    /\ gatewayQueue # << >>
    /\ gatewayQueue' = Tail(gatewayQueue)
    /\ consumer' = [ consumer EXCEPT ![g].unacked = @ \cup { Head(gatewayQueue) } ]
    /\ received' = received \cup { << g, Head(gatewayQueue) >> }
    /\ UNCHANGED << gatewayFrame, calls >>

\* The instance's callback acknowledges a delivery.
gateway_ack(g) ==
    /\ \E e \in consumer[g].unacked :
         consumer' = [ consumer EXCEPT ![g].unacked = @ \ { e } ]
    /\ UNCHANGED << gatewayFrame, gatewayQueue, received, calls >>

\* The entries of set S in some order.
RECURSIVE SeqOf(_)
SeqOf(S) ==
    IF S = {} THEN << >>
    ELSE LET e == CHOOSE x \in S : \A y \in S : x.n <= y.n
         IN  << e >> \o SeqOf(S \ { e })

\* MessageBroker.close, lines 590-597 (also the first half of reconnect,
\* lines 298-302), or the instance's connection dropping: the broker puts
\* its unacked deliveries back on the queue.
close(g) ==
    /\ consumer[g].state = "consuming"
    /\ calls.closes < MaxCloses
    /\ calls' = [ calls EXCEPT !.closes = @ + 1 ]
    /\ gatewayQueue' = SeqOf(consumer[g].unacked) \o gatewayQueue
    /\ consumer' = [ consumer EXCEPT ![g] = NoConsumer ]
    /\ UNCHANGED << gatewayFrame, received >>

-----------------------------------------------------------------------------
(* RateLimiter over its redis counters *)

\* A second passes.
TickSecond ==
    /\ seconds < MaxSeconds
    /\ seconds' = seconds + 1
    /\ UNCHANGED << pipelineVars, now, queues, startup, declareLog, consumer, received,
                    cleanupLog, inspectLog, redis, rateLog, unackedGet, calls, publishLog,
                    gatewayQueue, prefetched, republishLog >>

\* The key as redis holds it at this second: a key whose expiry has passed
\* is gone.
redis_get(key) ==
    IF redis[key].expires # -1 /\ seconds >= redis[key].expires
    THEN NoCounter ELSE redis[key]

\* Line 38: pipe.expire(key, window), run on every call
expire(held, window) == seconds + window

\* RateLimiter.check_rate_limit(key, limit, window), lines 29-49: INCR and
\* EXPIRE in one pipeline, allowed while the count is within the limit; when
\* redis raises the call is allowed.
check_rate_limit(key, limit, window) ==
    LET held == redis_get(key)
        current_count == held.count + 1
        last == rateLog[key]
        fresh == last.window_start = -1 \/ seconds >= last.window_start + window
        in_window == IF fresh THEN 1 ELSE last.in_window + 1
    IN  /\ calls.checks < MaxChecks
        /\ calls' = [ calls EXCEPT !.checks = @ + 1 ]
        /\ \/ /\ redis' = [ redis EXCEPT ![key] = [ count |-> current_count,
                                                     expires |-> expire(held, window) ] ]
              /\ rateLog' = [ rateLog EXCEPT ![key] =
                                [ done |-> TRUE, allowed |-> current_count <= limit,
                                  failed_open |-> FALSE,
                                  window_start |-> IF fresh THEN seconds
                                                   ELSE last.window_start,
                                  in_window |-> in_window,
                                  expected |-> in_window <= limit ] ]
              /\ UNCHANGED faults
           \/ \* except (redis.RedisError, Exception): return True
              /\ FaultAllowed(faults)
              /\ faults' = AfterFault(faults)
              /\ rateLog' = [ rateLog EXCEPT ![key].done = TRUE, ![key].allowed = TRUE,
                                             ![key].failed_open = TRUE ]
              /\ UNCHANGED redis
        /\ UNCHANGED << processed_message_ids, queue_declared, workerQueue, delayQueue, dlq,
                        rows, created, pc, delivery, local, accepted, processed, apiLog,
                        nPublish, nCrash, nRepublish >>
        /\ UNCHANGED << now, seconds, queues, startup, declareLog, consumer, received,
                        cleanupLog, inspectLog, unackedGet, publishLog, gatewayQueue, prefetched, republishLog >>

CheckRateLimit == \E key \in RateKeys : check_rate_limit(key, 1, 2)

-----------------------------------------------------------------------------
(* MessageRepo.create_message called directly, one transaction per call *)

\* create_message, lines 59-77, in auto-commit mode: the idempotency check,
\* the insert and the commit; apiLog records the call and the row returned
\* (NoRow when the call raised).
create_message(chat_id, sender_id, content, idempotency_key) ==
    LET existing == query_by_idempotency_key(rows, idempotency_key)
        message == NewMessage(rows, chat_id, sender_id, content, idempotency_key)
        call == [ chat_id |-> chat_id, sender_id |-> sender_id, content |-> content,
                  idempotency_key |-> idempotency_key, result |-> NoRow ]
    IN  /\ Len(apiLog) < MaxApiCalls
        /\ IF existing # {}
           THEN /\ \E e \in existing : apiLog' = Append(apiLog, [ call EXCEPT !.result = e ])
                /\ UNCHANGED rows
           ELSE IF UniqueViolation(rows, idempotency_key)
           THEN \* IntegrityError at flush: rollback, raise
                /\ apiLog' = Append(apiLog, call)
                /\ UNCHANGED rows
           ELSE /\ rows' = rows \cup {message}
                /\ apiLog' = Append(apiLog, [ call EXCEPT !.result = message ])
        /\ UNCHANGED << processed_message_ids, queue_declared, workerQueue, delayQueue, dlq,
                        created, pc, delivery, local, accepted, processed, faults,
                        nPublish, nCrash, nRepublish, restVars >>

CreateMessageCall ==
    \E sender_id \in {"u1", "u2"}, content \in {"hello", "bye"}, key \in Keys :
        create_message("c1", sender_id, content, key)

-----------------------------------------------------------------------------
WorkerStep(w) ==
    \/ callback_start(w)
    \/ callback_lookup(w)
    \/ callback_create(w)
    \/ callback_insert(w)
    \/ callback_publish(w)
    \/ callback_ack(w)
    \/ retry_ack(w)

\* The pipeline with two competing workers.
Next ==
    \/ PublishPending
    \/ \E w \in Workers : start_processing(w)
    \/ \E w \in Workers : process_messages_return(w)
    \/ \E w \in Workers : WorkerStep(w)
    \/ DelayExpire

Spec == Init /\ [][Next]_vars

\* One worker receiving well-formed and malformed deliveries, under any
\* number of failures.
NextRetry ==
    \/ PublishOne
    \/ PublishRaw
    \/ start_processing("w1")
    \/ process_messages_return("w1")
    \/ WorkerStep("w1")
    \/ DelayExpire

SpecRetry == InitAnyFaults /\ [][NextRetry]_vars

\* The same with the operator republishing dead-letter entries.
NextRepublish ==
    \/ PublishOne
    \/ PublishRaw
    \/ start_processing("w1")
    \/ process_messages_return("w1")
    \/ WorkerStep("w1")
    \/ DelayExpire
    \/ RepublishDlq

SpecRepublish == InitAnyFaults /\ [][NextRepublish]_vars

\* The same with crashes of the worker process.
NextCrash ==
    \/ PublishOne
    \/ PublishRaw
    \/ start_processing("w1")
    \/ process_messages_return("w1")
    \/ WorkerStep("w1")
    \/ Crash("w1")
    \/ DelayExpire
    \/ RepublishDlq

SpecCrash == InitAnyFaults /\ [][NextCrash]_vars

\* One worker that is sent stop signals while it runs.
NextStop ==
    \/ PublishOne
    \/ start_processing("w1")
    \/ process_messages_return("w1")
    \/ WorkerStep("w1")
    \/ DelayExpire
    \/ KeyboardInterrupt("w1")

SpecStop == Init /\ [][NextStop]_vars

\* Two workers whose deliveries are sent by the broker and dispatched by
\* their connections as steps of their own.
NextPrefetch ==
    \/ PublishPending
    \/ \E w \in Workers : start_processing(w)
    \/ \E w \in Workers : basic_deliver(w)
    \/ \E w \in Workers : dispatch(w)
    \/ \E w \in Workers : callback_lookup(w)
    \/ \E w \in Workers : callback_create(w)
    \/ \E w \in Workers : callback_insert(w)
    \/ \E w \in Workers : callback_publish(w)
    \/ \E w \in Workers : callback_ack(w)
    \/ \E w \in Workers : retry_ack(w)
    \/ DelayExpire

SpecPrefetch == Init /\ [][NextPrefetch]_vars

\* One worker receiving deliveries it dead-letters, and an operator moving
\* dead-letter entries back to the worker queue.
NextMove ==
    \/ PublishInvalid
    \/ PublishStamped
    \/ start_processing("w1")
    \/ callback_start("w1")
    \/ RepublishDlq

SpecMove == Init /\ [][NextMove]_vars

\* One worker receiving deliveries it dead-letters, and an operator looking
\* for one dead-letter entry by its identifier.
NextDetails ==
    \/ PublishInvalid
    \/ PublishStamped
    \/ start_processing("w1")
    \/ callback_start("w1")
    \/ GetDlqMessageDetails
    \/ OperatorClose

SpecDetails == Init /\ [][NextDetails]_vars

\* The storage collaborator alone, called in succession.
SpecRepo == Init /\ [][CreateMessageCall]_vars

\* One worker under any number of failures, scheduled fairly: a stopped
\* worker process is started again, a worker that can take a step over and
\* over again takes it, and a delay that has run out redelivers.
NextFair ==
    \/ PublishOne
    \/ start_processing("w1")
    \/ process_messages_return("w1")
    \/ WorkerStep("w1")
    \/ DelayExpire

FairSpec ==
    /\ InitAnyFaults
    /\ [][NextFair]_vars
    /\ WF_vars(start_processing("w1"))
    /\ SF_vars(WorkerStep("w1"))
    /\ WF_vars(DelayExpire)

\* The producers and the clock; the workers declare the queue and consume
\* nothing.
NextPublish ==
    \/ PublishPending
    \/ \E w \in Workers : start_processing(w)
    \/ Tick

SpecPublish == Init /\ [][NextPublish]_vars

\* One worker receiving deliveries it dead-letters, the clock, and an
\* operator inspecting and cleaning the dead-letter queue.
NextOps ==
    \/ PublishInvalid
    \/ PublishStamped
    \/ start_processing("w1")
    \/ callback_start("w1")
    \/ Tick
    \/ CleanupDlq
    \/ InspectDlq
    \/ OperatorClose

SpecOps == Init /\ [][NextOps]_vars

\* The declarations of the worker processes starting up, and the gateway
\* instances on their shared queue.
NextBroker ==
    \/ \E w \in Workers : setup_message_processor_queue(w)
    \/ \E w \in Workers : setup_dlq_monitoring(w)
    \/ \E w \in Workers : Restart(w)
    \/ \E g \in Gateways : setup_consumer_queue(g)
    \/ \E g \in Gateways : start_consuming(g)
    \/ PublishEvent
    \/ \E g \in Gateways : Deliver(g)
    \/ \E g \in Gateways : gateway_ack(g)
    \/ \E g \in Gateways : close(g)

SpecBroker == Init /\ [][NextBroker]_vars

\* The rate limiter called for two keys while time passes.
NextRate ==
    \/ CheckRateLimit
    \/ TickSecond

SpecRate == Init /\ [][NextRate]_vars

-----------------------------------------------------------------------------
(* Properties *)

\* The messages in the worker queue or held unacked by a worker.
QueuedOrHeld ==
    { workerQueue[i] : i \in 1..Len(workerQueue) } \cup
    { delivery[w] : w \in { v \in Workers : pc[v] \notin {"idle", "stopped"} } }

DeadLettered == { dlq[i] : i \in 1..Len(dlq) }

\* The idempotency key of the event worker w holds.
HeldKey(w) == delivery[w].body.data.idempotency_key

\* The created events published for the row stored under key k.
RECURSIVE SumCopies(_, _)
SumCopies(S, B) ==
    IF S = {} THEN 0
    ELSE LET e == CHOOSE x \in S : TRUE
         IN  CopiesIn(e, B) + SumCopies(S \ {e}, B)

CreatedCount(k) ==
    SumCopies({ e \in BagToSet(created) :
                  \E r \in rows : ToString(r.id) = e.id /\ r.idempotency_key = k }, created)

CreateMessageIdempotent ==
    \A i \in 1..Len(apiLog) :
        LET call == apiLog[i]
            first == CHOOSE j \in 1..i :
                        /\ apiLog[j].idempotency_key = call.idempotency_key
                        /\ \A h \in 1..(j - 1) :
                              apiLog[h].idempotency_key # call.idempotency_key
        IN  /\ call.result # NoRow
            /\ { r \in rows : r.idempotency_key = call.idempotency_key } = { call.result }
            /\ call.result.content = apiLog[first].content
            /\ call.result.sender_id = apiLog[first].sender_id

\* C2, the case: two successive calls under one key with other content and
\* another sender, both returned the same row.
SecondCallReturnedFirstRow ==
    /\ Len(apiLog) >= 2
    /\ apiLog[1].idempotency_key = apiLog[2].idempotency_key
    /\ apiLog[1].content # apiLog[2].content
    /\ apiLog[1].sender_id # apiLog[2].sender_id
    /\ apiLog[2].result = apiLog[1].result
    /\ apiLog[2].result # NoRow

Exhausted ==
    { m \in DeadLettered :
        m.reason = "exhausted" /\ m.origin # "raw" /\ m.body.kind = "object" }

ExpectedDelay == << 1, 2, 4 >>

\* C5 as stated: the message redelivered for the n-th time carries
\* retry_count = n - 1, after a backoff of 2^(n-1) seconds.
RedeliveryCarriesCountMinusOne ==
    \A e \in delayQueue :
        /\ e.msg.retry_count = e.msg.hops - 1
        /\ e.delay = ExpectedDelay[e.msg.hops]

\* C5 as the code has it: the message redelivered for the n-th time, n from 1
\* to max_retries, carries retry_count = n after a backoff of 2^(n-1)
\* seconds, and the worker reads that count from the headers of the delivery.
RedeliveryCarriesCount ==
    /\ \A e \in delayQueue :
          /\ e.msg.hops \in 1..DEFAULT_MAX_RETRIES
          /\ e.msg.retry_count = e.msg.hops
          /\ e.delay = ExpectedDelay[e.msg.hops]
    /\ \A m \in QueuedOrHeld :
          m.origin # "raw" => header_retry_count(m) = m.hops

\* C5, the case: the third redelivery is waiting in the delay path.
ThirdRedeliveryDelayed ==
    \E e \in delayQueue : e.msg.hops = 3 /\ e.delay = 4 /\ e.msg.retry_count = 3

\* Worker w holds the delivery of event id; the event is neither in the
\* worker queue nor held by a worker.
HeldByWorker(id) ==
    \E w \in Workers : pc[w] \notin {"idle", "stopped"} /\ delivery[w].message_id = id
LeftWorkerQueue(id) ==
    \A m \in QueuedOrHeld : m.message_id # id

\* C6: under fair scheduling every delivery a worker receives eventually
\* leaves the worker queue (acked, moved to the delay path or dead-lettered),
\* for every failure pattern.
EveryDeliveryLeavesTheWorkerQueue ==
    \A id \in {"m1", "m4"} : HeldByWorker(id) ~> LeftWorkerQueue(id)

\* The message carries the event d, whatever retry_count its body has.
Carries(m, d) ==
    m.body.kind = "object" /\ [ m.body.data EXCEPT !.retry_count = -1 ] = d

\* C7: every event publish_message_pending returned for is in the worker
\* queue or held by a worker, in the delay path, in the dead-letter queue, or
\* stored as a row under its idempotency key.
NoAcceptedEventLost ==
    \A d \in accepted :
        \/ \E m \in QueuedOrHeld : Carries(m, d)
        \/ \E e \in delayQueue : Carries(e.msg, d)
        \/ \E m \in DeadLettered : Carries(m, d)
        \/ \E r \in rows : r.idempotency_key = d.idempotency_key

\* C8: a delivery whose body cannot be parsed is nacked without requeue by
\* the callback that received it: no message with such a body is in the
\* worker queue after a worker handled it, and no worker stops on it.
UnparsableNeverBackInQueue ==
    \A m \in QueuedOrHeld :
        json_loads(m.body).raised # NONE => m.att = 0 /\ ~m.repeated

\* C9: a delivery whose body parses but lacks required fields is nacked
\* without requeue and without the retry budget being consulted: such a
\* message goes to the dead-letter queue as invalid, and is never counted as
\* a failed attempt, requeued or dead-lettered as exhausted.
InvalidNeverRetried ==
    \A m \in QueuedOrHeld \cup DeadLettered :
        LET parsed == json_loads(m.body)
        IN  (parsed.raised = NONE /\ (~parsed.isdict \/ ~validate_message_data(parsed.data)))
            => /\ m.att = 0
               /\ ~m.repeated
               /\ m.reason \in {NONE, "invalid"}

\* C10: an entry republish_dlq_messages moved to the worker queue is received
\* with retry_count 0 and the full retry budget, whatever count it was
\* dead-lettered with.
RepublishedStartsAtZero ==
    \A m \in QueuedOrHeld :
        (m.origin = "republish" /\ m.hops = 0)
            => /\ header_retry_count(m) = 0
               /\ header_max_retries(m) = DEFAULT_MAX_RETRIES

\* C10, the case: a worker holds a republished entry that was dead-lettered
\* with its retry budget used up.
RepublishedExhaustedReceived ==
    \E w \in Workers :
        /\ pc[w] = "lookup"
        /\ delivery[w].origin = "republish"
        /\ delivery[w].hops = 0
        /\ delivery[w].body.data.retry_count = DEFAULT_MAX_RETRIES
\* The entries of a sequence.
Range(q) == { q[i] : i \in 1..Len(q) }

\* C11: a cleanup with a maximum age removes only entries that were put on
\* the dead-letter queue longer ago than that age: of entries enqueued at
\* T1 < T2 < T3 with only T1 and T2 aged out, T3 stays.
CleanupRemovesOnlyAgedEntries ==
    cleanupLog.done =>
        \A e \in Range(cleanupLog.removed) :
            cleanupLog.at - e.dead_at > cleanupLog.max_age_hours

\* The basic_publish calls producer p has made for message id.
IssuedCount(p, id) ==
    SumCopies({ e \in BagToSet(publishLog.issued) : e[1] = p /\ e[2].message_id = id },
              publishLog.issued)

MessageIds == { "m1", "m2", "m3", "m4", NONE }

\* C12: a publish_message_pending call with a message id the instance has
\* already published makes no basic_publish and changes neither the
\* instance nor the queue, and an instance never publishes a message id
\* more than once.
SeenIdIsNotPublishedAgain ==
    [][ /\ publishLog'.skipped # publishLog.skipped =>
             /\ publishLog'.issued = publishLog.issued
             /\ processed_message_ids' = processed_message_ids
             /\ workerQueue' = workerQueue
        /\ \A p \in Producers, id \in MessageIds : IssuedCount(p, id)' <= 1 ]_vars

SecondCallWasSkipped ==
    /\ publishLog.skipped = 1
    /\ IssuedCount("p1", "m1") = 1
    /\ processed_message_ids["p1"] = { "m1" }

\* C13: every pending event handed to the broker is persistent, carries
\* the event's id as message_id, goes to exchange conv.message.pending under
\* the routing key of its chat, and carries the headers x-retry-count 0,
\* x-max-retries 3, x-first-publish-time equal to the time of the publish and
\* x-idempotency-key equal to the event's idempotency_key.
PendingEventCarriesItsProperties ==
    \A e \in BagToSet(publishLog.issued) :
        LET msg == e[2]
            event == msg.body.data
        IN  /\ msg.delivery_mode = 2
            /\ msg.message_id = event.id
            /\ msg.exchange = "conv.message.pending"
            /\ msg.routing_key = << "conv", event.chat_id, "message", "pending" >>
            /\ msg.has_headers
            /\ msg.retry_count = 0
            /\ msg.max_retries = 3
            /\ msg.first_publish_time = (SinceEpoch + e[3]) * MS_PER_HOUR
            /\ "idempotency_key" \in event.fields =>
                   msg.x_idempotency_key = event.idempotency_key

PublishedAfterAnHour ==
    \E e \in BagToSet(publishLog.issued) :
        /\ e[3] = 1
        /\ e[2].first_publish_time = (SinceEpoch + 1) * MS_PER_HOUR
        /\ e[2].x_idempotency_key = "k1"
        /\ e[2] \in Range(workerQueue)

\* C14: the declarations are safe to repeat: every queue is declared with
\* the same parameters each time, and no startup has a declaration refused
\* for a parameter mismatch.
NoDeclarationRefused == declareLog = {}

\* C15: with any number of gateway instances consuming the shared queue
\* under manual acknowledgement, no created or presence event is handed to
\* two instances.
DeliveredToAtMostOneInstance ==
    \A r \in received :
        Cardinality({ g \in Gateways : << g, r[2] >> \in received }) <= 1

\* C17: the dead-letter queue is bounded: it exists with a maximum length of
\* 10000 entries and drops its oldest entry when a new one arrives at a full
\* queue.
DeadLetterQueueIsBounded ==
    queues["message_processor_dlq"].declared =>
        /\ queues["message_processor_dlq"].arguments.max_length = 10000
        /\ queues["message_processor_dlq"].arguments.overflow = "drop-head"

\* C16: when a pending event with id m and chat c under a fresh key is
\* persisted at the first attempt, the created event published for it
\* carries id m and chat_id c.
CreatedEventCarriesPendingId ==
    \A w \in Workers :
        pc[w] = "ack" /\ ~local[w].existing /\ delivery[w].att = 0 =>
            \E e \in BagToSet(created) :
                /\ e.id = delivery[w].message_id
                /\ e.chat_id = delivery[w].body.data.chat_id

RateLimitIsFixedWindow ==
    \A key \in RateKeys :
        rateLog[key].done /\ ~rateLog[key].failed_open =>
            rateLog[key].allowed = rateLog[key].expected

\* C20: when the row for the event's idempotency key exists already, the
\* worker publishes a created event built from that row and acks the
\* delivery; it adds no row, and it sends nothing to the delay path or the
\* dead-letter queue and leaves the delivery's headers as they are.
ExistingRowIsPublishedAndAcked ==
    [][ \A w \in Workers :
          /\ pc[w] = "publish" /\ local[w].existing /\ pc'[w] = "ack" =>
                /\ local[w].message \in rows
                /\ local[w].message.idempotency_key = HeldKey(w)
                /\ created' = created (+) SetToBag({
                        [ id |-> ToString(local[w].message.id),
                          chat_id |-> local[w].message.chat_id,
                          sender_id |-> local[w].message.sender_id,
                          content |-> local[w].message.content ] })
                /\ delivery'[w] = delivery[w]
                /\ UNCHANGED << rows, workerQueue, delayQueue, dlq >>
          /\ pc[w] = "ack" /\ local[w].existing /\ pc'[w] # "ack" =>
                /\ pc'[w] = "idle"
                /\ local[w].pubs = 1
                /\ processed'[HeldKey(w)] = processed[HeldKey(w)] + 1
                /\ UNCHANGED << rows, workerQueue, delayQueue, dlq >> ]_vars

ExistingRowPublished ==
    \E w \in Workers :
        /\ pc[w] = "ack"
        /\ local[w].existing
        /\ local[w].pubs = 1
        /\ delivery[w].message_id = "m2"
        /\ local[w].message.content = "hello"
        /\ Cardinality(rows) = 1

\* The positions of the callback at which the worker holds a validated
\* delivery and calls the storage or publishes the created event.
Handling == { "lookup", "create", "insert", "publish" }

\* C21: a delivery whose handling failed while its retry_count is below
\* max_retries is moved and not lost: the step that leaves the handling
\* without processing the delivery either puts the event into the delay path
\* with retry_count + 1 and the delay 2^retry_count while the delivery is
\* still held, or (the publish raised) puts the delivery back at the head of
\* the worker queue; the ack follows the publish as a step of its own, after
\* which the worker is ready for its next delivery at once; and an entry
\* leaves the delay path only into the worker queue.
FailedDeliveryIsDelayedThenAcked ==
    [][ /\ \A w \in Workers :
             LET msg == delivery[w]
                 retry_count == header_retry_count(msg)
             IN  /\ ( pc[w] \in Handling /\ pc'[w] = "retry_ack" ) =>
                        /\ retry_count < header_max_retries(msg)
                        /\ delivery'[w] = msg
                        /\ workerQueue' = workerQueue
                        /\ \E e \in delayQueue' \ delayQueue :
                              /\ delayQueue' = delayQueue \cup {e}
                              /\ e.msg.message_id = msg.message_id
                              /\ e.msg.retry_count = retry_count + 1
                              /\ e.msg.body.data =
                                   [ msg.body.data EXCEPT !.retry_count = retry_count + 1 ]
                              /\ e.delay = Pow(BACKOFF_BASE, retry_count)
                 /\ ( pc[w] \in Handling /\ pc'[w] \in {"idle", "stopped"}
                      /\ processed' = processed
                      /\ retry_count < header_max_retries(msg) ) =>
                        /\ workerQueue' = << Repeated(msg) >> \o workerQueue
                        /\ UNCHANGED << delayQueue, dlq >>
                 /\ ( pc[w] = "retry_ack" /\ pc'[w] # "retry_ack" ) =>
                        /\ pc'[w] = "idle"
                        /\ delivery'[w] = NoMessage
                        /\ UNCHANGED << workerQueue, delayQueue, dlq >>
                 /\ ( pc'[w] = "retry_ack" ) => ( pc[w] \in Handling \cup {"retry_ack"} )
        /\ ( delayQueue' # delayQueue /\ \A w \in Workers : pc'[w] # "retry_ack" \/ pc[w] = "retry_ack" ) =>
               \E e \in delayQueue :
                  /\ delayQueue' = delayQueue \ {e}
                  /\ workerQueue' = Append(workerQueue, e.msg)
      ]_vars

\* The event has failed twice, has been through the delay path twice and
\* is back in the worker queue carrying retry_count 2, its delivery acked.
DelayedTwiceAndRedelivered ==
    /\ pc["w1"] = "idle"
    /\ delayQueue = {}
    /\ \E i \in 1..Len(workerQueue) :
          /\ workerQueue[i].message_id = "m1"
          /\ workerQueue[i].retry_count = 2
          /\ workerQueue[i].hops = 2

\* C22: an unexpected exception while the worker handles a delivery goes
\* through the retry decision like a persistence failure: when a worker that
\* waits for a delivery takes, as the head of the worker queue, a message
\* whose body parses but is no object or is no UTF-8 text, the step moves the
\* event to the delay path with retry_count + 1, or puts it back with a nack
\* when the delay publish fails, or dead-letters it when the budget is spent.
UnexpectedExceptionGoesThroughRetryDecision ==
    [][ \A w \in Workers :
          ( /\ pc[w] = "idle"
            /\ workerQueue # << >>
            /\ workerQueue' # workerQueue
            /\ Len(workerQueue') <= Len(workerQueue)
            /\ json_loads(Head(workerQueue).body).raised # "JSONDecodeError"
            /\ ~json_loads(Head(workerQueue).body).isdict ) =>
              LET msg == Head(workerQueue)
                  retry_count == header_retry_count(msg)
              IN  IF retry_count < header_max_retries(msg)
                  THEN \/ \E e \in delayQueue' \ delayQueue :
                             e.msg.retry_count = retry_count + 1
                       \/ /\ pc'[w] = "idle"
                          /\ workerQueue' = << Repeated(msg) >> \o Tail(workerQueue)
                  ELSE /\ pc'[w] = "idle"
                       /\ Len(dlq') = Len(dlq) + 1
                       /\ dlq'[Len(dlq')].body = msg.body
      ]_vars

\* C23: after start_processing the worker keeps consuming: a worker that
\* waits for its next delivery does not stop consuming or close its
\* connection on its own (no step of this specification is a stop signal).
WorkerKeepsConsuming ==
    [][ \A w \in Workers : pc[w] = "idle" => pc'[w] # "stopped" ]_vars

\* C24: a worker stops on a stop signal only between deliveries: no step
\* takes a worker that holds a delivery it has neither acked nor nacked
\* (validated, looked up, persisted or published, or delayed and not yet
\* acked) to the state in which it has stopped and closed its connection.
StopsOnlyBetweenDeliveries ==
    [][ \A w \in Workers :
           pc'[w] = "stopped" => pc[w] \in {"stopped", "idle"} ]_vars

\* C25: with prefetch_count = 1 every worker holds at most one delivery that
\* it was sent and has neither acked nor nacked, whatever waits in the worker
\* queue or in the delay path.
AtMostOneUnackedPerWorker ==
    \A w \in Workers : Unacked(w) <= 1

\* A worker handles the one delivery it was sent while the event of an
\* earlier failure sits in the delay path.
HandlingWhileAnotherIsDelayed ==
    \E w \in Workers :
        /\ pc[w] \in Handling
        /\ Unacked(w) = 1
        /\ delayQueue # {}
        /\ \A e \in delayQueue : e.msg.message_id # delivery[w].message_id

CleanupRemovesExactlyTheAgedPrefix ==
    cleanupLog.done =>
        /\ \A e \in Range(cleanupLog.removed) :
              cleanupLog.at - e.dead_at >= cleanupLog.max_age_hours
        /\ \A i \in (Len(cleanupLog.removed) + 1)..Len(cleanupLog.fetched) :
              cleanupLog.at - cleanupLog.fetched[i].dead_at < cleanupLog.max_age_hours

\* C28: get_dlq_message_details(message_id) returns the entry with that
\* identifier when one is among the first 100 ready entries of the
\* dead-letter queue, at whatever position, returns none otherwise, and
\* leaves the entries of the dead-letter queue as they were.
DetailsFindsTheEntryAtAnyPosition ==
    [][ inspectLog'.n # inspectLog.n =>
          LET wanted == inspectLog'.wanted
              present == \E i \in 1..Len(dlq) :
                            i <= DETAILS_LIMIT /\ dlq[i].message_id = wanted
          IN  /\ present => /\ inspectLog'.details # << >>
                            /\ inspectLog'.details[1].message_id = wanted
              /\ ~present => inspectLog'.details = << >>
              /\ Len(unackedGet' \o dlq') = Len(unackedGet \o dlq)
              /\ Range(unackedGet' \o dlq') = Range(unackedGet \o dlq) ]_vars

\* C29: every invocation of process_message_callback settles its delivery
\* exactly once: the callback returns after one basic_ack or basic_nack and
\* the worker waits for its next delivery; no invocation ends with the
\* delivery neither acked nor nacked, that is, with an exception that leaves
\* the callback and ends the worker's process while the broker puts the
\* delivery back.
DeliverySettledExactlyOnce ==
    [][ \A w \in Workers :
           ( pc[w] # "stopped" /\ pc'[w] = "stopped" ) =>
               ( pc[w] = "idle" /\ workerQueue' = workerQueue ) ]_vars

\* C30: a message id is in an instance's processed_message_ids only if that
\* instance handed a pending event with that id to the broker; a
\* publish_message_pending call whose publish raised leaves the set as it
\* was, so a later publish of the same id is not suppressed.
TrackedIdsWereHandedToTheBroker ==
    \A p \in Producers :
        \A id \in processed_message_ids[p] : IssuedCount(p, id) >= 1

PublishedAfterARaise ==
    /\ publishLog.raised = { << "p1", "m1" >> }
    /\ IssuedCount("p1", "m1") = 1
    /\ processed_message_ids["p1"] = { "m1" }
    /\ publishLog.skipped = 0

====
